---- MODULE Spec2Model ----
(***************************************************************************)
(* Conway's Game of Life on a sparse set of live cells (src/main.rs).      *)
(*                                                                         *)
(* The engine is the struct Game: a hash set of live cells, a board shape  *)
(* and a generation counter.  Coordinates are u16 in the source; here the  *)
(* unsigned coordinate type is 0..CoordMax, with the same overflow         *)
(* behaviour: an arithmetic result outside the type either panics (a build *)
(* with overflow checks) or wraps modulo CoordMax + 1 (a build without).   *)
(*                                                                         *)
(* Four views of the program are specified: the engine driven operation by *)
(* operation (Spec, SpecNoResize), cell_neighbors on its own               *)
(* (SpecNeighbors), the loop of next() taking the live cells in any order  *)
(* (SpecOrder), and main with its terminal setup, control loop, SIGINT     *)
(* flag and teardown (SpecMain).                                           *)
(***************************************************************************)
EXTENDS Integers, FiniteSets, Sequences, TLC

\* Largest value of the unsigned coordinate type (u16::MAX in the source).
CoordMax == 4
\* Number of cells, in the order seed() visits them, whose random draw may
\* come out below the threshold; the draws of the later cells come out above.
SeedCells == 6
\* next() is taken from generations below MaxGen.
MaxGen == 2
\* Largest number of live cells of an engine whose next() is followed cell by
\* cell through the iteration of the hash set.
MaxVisit == 3
\* Largest width and height the terminal reports to main.
TermMax == 2

VARIABLES
    phase,            \* "uninit", "created", "running", "panicked"
    cells,            \* Game.cells
    board_shape,      \* Game.board_shape
    generation,       \* Game.generation
    dense,            \* reference dense grid run beside the sparse engine
    op,               \* last operation called
    args,             \* arguments of the last new/resize_board call
    pre_cells,        \* Game.cells before the last operation
    pre_generation,   \* Game.generation before the last operation
    advances,         \* number of next() calls that returned
    overflowed,       \* the last operation's arithmetic left the coordinate type
    query,            \* last direct call of cell_neighbors: its cell and result
    visited,          \* next(): the live cells the loop has taken, in its order
    next_gen,         \* next(): the local set next_generation built so far
    pc,               \* main: the statement it is at
    paused,           \* main: the local paused
    stop_signal,      \* main: the flag the SIGINT handler sets
    raw_mode,         \* terminal: raw mode is enabled
    alternate_screen, \* terminal: the alternate screen is entered
    cursor_hidden,    \* terminal: the cursor is hidden
    status,           \* process: "running", "ok", "err", "panicked"
    iter,             \* what the current loop iteration has done so far
    failed,           \* the call of main that returned Err, or "none"
    since_stop,       \* polls and next() calls begun after the flag was set
    cleanup           \* terminal restoring calls made so far

engine_vars == <<phase, cells, board_shape, generation, dense, op,
                 args, pre_cells, pre_generation, advances, overflowed, query>>
walk_vars == <<visited, next_gen>>
main_vars == <<pc, paused, stop_signal, raw_mode, alternate_screen,
               cursor_hidden, status, iter, failed, since_stop, cleanup>>
vars == <<engine_vars, walk_vars, main_vars>>

U16 == 0..CoordMax
Cell == U16 \X U16
Shapes == [width : U16, height : U16]

\* u16 arithmetic without overflow checks: the result modulo 2^16.
wrapping(n) == n % (CoordMax + 1)

\* The coordinates (i, j) with i < width and j < height.
Rect(shape) == (0..(shape.width - 1)) \X (0..(shape.height - 1))

NoArgs == <<>>
\* An iteration of main's loop that has done nothing yet.
NoIter == [event |-> "none", flag |-> FALSE, was_paused |-> FALSE,
           generation |-> 0, displays |-> 0, nexts |-> 0]

\* Nothing has run since the flag was set (or it is not set).
NoneSinceStop == [polls |-> 0, nexts |-> 0]

\* No next() is being followed cell by cell.
WalkIdle == visited = <<>> /\ next_gen = {}

\* main is not running: the engine is driven directly.
MainIdle ==
    /\ pc = "none"
    /\ paused = FALSE
    /\ stop_signal = FALSE
    /\ raw_mode = FALSE
    /\ alternate_screen = FALSE
    /\ cursor_hidden = FALSE
    /\ status = "running"
    /\ iter = NoIter
    /\ failed = "none"
    /\ since_stop = NoneSinceStop
    /\ cleanup = {}

NoQuery == [called |-> FALSE, cell |-> <<0, 0>>,
            result |-> [overflow |-> FALSE, neighbors |-> {}]]

----------------------------------------------------------------------------
(* Game::cell_neighbors *)

\* Variant: the test (i, j) != *cell is missing.
cell_neighbors_with_self(cell, shape) ==
    LET i == cell[1]
        j == cell[2]
        row_lo == IF i > 0 THEN i - 1 ELSE i
        col_lo == IF j > 0 THEN j - 1 ELSE j
        row_range == wrapping(row_lo)..wrapping(i + 1)
        col_range == wrapping(col_lo)..wrapping(j + 1)
    IN  [overflow  |-> i + 1 > CoordMax \/ j + 1 > CoordMax,
         neighbors |-> {c \in row_range \X col_range :
                          c[1] < shape.width /\ c[2] < shape.height}]

\* Variant: the tests against the board shape are missing.
cell_neighbors_unbounded(cell, shape) ==
    LET i == cell[1]
        j == cell[2]
        row_lo == IF i > 0 THEN i - 1 ELSE i
        col_lo == IF j > 0 THEN j - 1 ELSE j
        row_range == wrapping(row_lo)..wrapping(i + 1)
        col_range == wrapping(col_lo)..wrapping(j + 1)
    IN  [overflow  |-> i + 1 > CoordMax \/ j + 1 > CoordMax,
         neighbors |-> {c \in row_range \X col_range : c # cell}]

\* Variant: the lower ends are i - 1 and j - 1 without the tests i > 0, j > 0.
cell_neighbors_unguarded(cell, shape) ==
    LET i == cell[1]
        j == cell[2]
        row_range == wrapping(i - 1)..wrapping(i + 1)
        col_range == wrapping(j - 1)..wrapping(j + 1)
    IN  [overflow  |-> \/ i - 1 < 0 \/ i + 1 > CoordMax
                       \/ j - 1 < 0 \/ j + 1 > CoordMax,
         neighbors |-> {c \in row_range \X col_range :
                          /\ c[1] < shape.width
                          /\ c[2] < shape.height
                          /\ c # cell}]

\* Variant: only the four cells sharing an edge are taken, not the diagonals.
cell_neighbors_orthogonal(cell, shape) ==
    LET i == cell[1]
        j == cell[2]
        row_lo == IF i > 0 THEN i - 1 ELSE i
        col_lo == IF j > 0 THEN j - 1 ELSE j
        row_range == wrapping(row_lo)..wrapping(i + 1)
        col_range == wrapping(col_lo)..wrapping(j + 1)
    IN  [overflow  |-> i + 1 > CoordMax \/ j + 1 > CoordMax,
         neighbors |-> {c \in row_range \X col_range :
                          /\ c[1] < shape.width
                          /\ c[2] < shape.height
                          /\ c # cell
                          /\ (c[1] = i \/ c[2] = j)}]

\* The ranges row_range and col_range hold the wrapped ends: a range whose
\* start exceeds its end is empty.  overflow: one of the four end points left
\* the type, so that a build with overflow checks panics instead of returning.
cell_neighbors(cell, shape) ==
    LET i == cell[1]
        j == cell[2]
        row_lo == IF i > 0 THEN i - 1 ELSE i
        col_lo == IF j > 0 THEN j - 1 ELSE j
        row_hi == i + 1
        col_hi == j + 1
        row_range == wrapping(row_lo)..wrapping(row_hi)
        col_range == wrapping(col_lo)..wrapping(col_hi)
    IN  [overflow  |-> \/ row_lo < 0 \/ row_hi > CoordMax
                       \/ col_lo < 0 \/ col_hi > CoordMax,
         neighbors |-> {c \in row_range \X col_range :
                          /\ c[1] < shape.width
                          /\ c[2] < shape.height
                          /\ c # cell}]

----------------------------------------------------------------------------
(* Game::next *)

\* neighbors.iter().filter(|cell| self.cells.contains(cell)).count()
alive_neighbors(cell, cs, shape) ==
    Cardinality({c \in cell_neighbors(cell, shape).neighbors : c \in cs})

\* Variant: only a count of 2 keeps a live cell.
survives_on_two(n) == n = 2

\* Variant: only a count of 3 keeps a live cell.
survives_on_three(n) == n = 3

\* if let 2 | 3 = alive_neighbors
survives(n) == n \in {2, 3}

\* Variant: a count of 2 also gives birth.
born_on_two_or_three(n) == n \in {2, 3}

\* if alive_neighbors == 3
born(n) == n = 3

\* neighbors.iter().filter(|cell| !self.cells.contains(cell))
dead_neighbors(cell, cs, shape) ==
    {c \in cell_neighbors(cell, shape).neighbors : c \notin cs}

\* Variant: the dead neighbours are examined only for the cells that survive.
next_generation_births_by_survivors(cs, shape) ==
    LET kept == {cell \in cs : survives(alive_neighbors(cell, cs, shape))}
    IN  kept \cup UNION {{d \in dead_neighbors(cell, cs, shape) :
                            born(alive_neighbors(d, cs, shape))} : cell \in kept}

\* The set next_generation once the loop over self.cells has ended.
next_generation(cs, shape) ==
    {cell \in cs : survives(alive_neighbors(cell, cs, shape))}
    \cup UNION {{d \in dead_neighbors(cell, cs, shape) :
                    born(alive_neighbors(d, cs, shape))} : cell \in cs}

\* Some cell_neighbors call made by next() leaves the coordinate type.
next_overflows(cs, shape) ==
    \E cell \in cs :
        \/ cell_neighbors(cell, shape).overflow
        \/ \E d \in dead_neighbors(cell, cs, shape) :
               cell_neighbors(d, shape).overflow

----------------------------------------------------------------------------
(* The dense reference: a grid of booleans over the board rectangle,       *)
(* every cell rewritten from the previous buffer with B3/S23 and no        *)
(* wraparound.                                                             *)

DenseOf(cs, shape) == [c \in Rect(shape) |-> c \in cs]

DenseLive(grid) == {c \in DOMAIN grid : grid[c]}

Adjacent(c, d) ==
    /\ c # d
    /\ c[1] - d[1] \in {-1, 0, 1}
    /\ c[2] - d[2] \in {-1, 0, 1}

DenseStep(grid) ==
    [c \in DOMAIN grid |->
        LET n == Cardinality({d \in DOMAIN grid : Adjacent(c, d) /\ grid[d]})
        IN  IF grid[c] THEN n \in {2, 3} ELSE n = 3]

NoGrid == [c \in {} |-> FALSE]

----------------------------------------------------------------------------
Init ==
    /\ phase = "uninit"
    /\ cells = {}
    /\ board_shape = [width |-> 0, height |-> 0]
    /\ generation = 0
    /\ dense = NoGrid
    /\ op = "none"
    /\ args = NoArgs
    /\ pre_cells = {}
    /\ pre_generation = 0
    /\ advances = 0
    /\ overflowed = FALSE
    /\ query = NoQuery
    /\ WalkIdle
    /\ MainIdle

\* Variant: the height is stored as given, without the row kept for the
\* status line.
new_keeps_height(width, height) ==
    /\ phase = "uninit"
    /\ op' = "new"
    /\ args' = <<width, height>>
    /\ pre_cells' = cells
    /\ pre_generation' = generation
    /\ overflowed' = FALSE
    /\ phase' = "created"
    /\ cells' = {}
    /\ board_shape' = [width |-> width, height |-> height]
    /\ generation' = 0
    /\ dense' = DenseOf({}, board_shape')
    /\ UNCHANGED <<advances, query>>

\* Game::new(width, height).  A subtraction height - 1 that leaves the type
\* panics in a build with overflow checks and wraps in a build without.
new(width, height) ==
    /\ phase = "uninit"
    /\ op' = "new"
    /\ args' = <<width, height>>
    /\ pre_cells' = cells
    /\ pre_generation' = generation
    /\ overflowed' = (height - 1 < 0)
    /\ \/ /\ height - 1 < 0
          /\ phase' = "panicked"
          /\ UNCHANGED <<cells, board_shape, generation, dense>>
       \/ /\ phase' = "created"
          /\ cells' = {}
          /\ board_shape' = [width |-> width, height |-> wrapping(height - 1)]
          /\ generation' = 0
          /\ dense' = DenseOf({}, board_shape')
    /\ UNCHANGED <<advances, query>>

\* The cells seed() can make alive: the first SeedCells of the board in the
\* order of its two loops (i outer, j inner).
SeedReach(shape) ==
    {c \in Rect(shape) : c[1] * shape.height + c[2] < SeedCells}

\* Game::seed, the random draws coming out below the threshold exactly for the
\* cells of live.
seed(live) ==
    /\ phase = "created"
    /\ op' = "seed"
    /\ pre_cells' = cells
    /\ pre_generation' = generation
    /\ overflowed' = FALSE
    /\ phase' = "running"
    /\ cells' = cells \cup live
    /\ dense' = DenseOf(cells', board_shape)
    /\ UNCHANGED <<board_shape, generation, args, advances, query>>

\* Variant: an empty board returns before the counter is incremented.
next_returns_early_when_empty ==
    /\ phase = "running"
    /\ generation < MaxGen
    /\ op' = "next"
    /\ pre_cells' = cells
    /\ pre_generation' = generation
    /\ overflowed' = next_overflows(cells, board_shape)
    /\ \/ /\ next_overflows(cells, board_shape)
          /\ phase' = "panicked"
          /\ UNCHANGED <<cells, generation, advances, dense>>
       \/ /\ cells' = next_generation(cells, board_shape)
          /\ generation' = IF cells = {} THEN generation ELSE generation + 1
          /\ advances' = advances + 1
          /\ dense' = DenseStep(dense)
          /\ UNCHANGED phase
    /\ UNCHANGED <<board_shape, args, query>>

\* Game::next.  A cell_neighbors call that leaves the type panics in a build
\* with overflow checks, before self.cells is assigned, and wraps in a build
\* without.
next ==
    /\ phase = "running"
    /\ generation < MaxGen
    /\ op' = "next"
    /\ pre_cells' = cells
    /\ pre_generation' = generation
    /\ overflowed' = next_overflows(cells, board_shape)
    /\ \/ /\ next_overflows(cells, board_shape)
          /\ phase' = "panicked"
          /\ UNCHANGED <<cells, generation, advances, dense>>
       \/ /\ cells' = next_generation(cells, board_shape)
          /\ generation' = generation + 1
          /\ advances' = advances + 1
          /\ dense' = DenseStep(dense)
          /\ UNCHANGED phase
    /\ UNCHANGED <<board_shape, args, query>>

\* Game::display: reads the engine through &self and writes to the terminal.
display ==
    /\ phase = "running"
    /\ op' = "display"
    /\ pre_cells' = cells
    /\ pre_generation' = generation
    /\ overflowed' = FALSE
    /\ UNCHANGED <<phase, cells, board_shape, generation,
                   dense, args, advances, query>>

\* Variant: the cells outside the new shape are evicted.
resize_board_clips(width, height) ==
    /\ phase = "running"
    /\ op' = "resize_board"
    /\ args' = <<width, height>>
    /\ pre_cells' = cells
    /\ pre_generation' = generation
    /\ overflowed' = (height - 1 < 0)
    /\ \/ /\ height - 1 < 0
          /\ phase' = "panicked"
          /\ board_shape' = [board_shape EXCEPT !.width = width]
       \/ /\ board_shape' = [width |-> width, height |-> wrapping(height - 1)]
          /\ UNCHANGED phase
    /\ cells' = cells \cap Rect(board_shape')
    /\ dense' = DenseOf(cells', board_shape')
    /\ UNCHANGED <<generation, advances, query>>

\* Game::resize_board(width, height).  The width is stored before the
\* subtraction height - 1 is evaluated, which panics or wraps as in new.  The
\* dense reference is restarted on the new rectangle from the engine's cells
\* inside it.
resize_board(width, height) ==
    /\ phase = "running"
    /\ op' = "resize_board"
    /\ args' = <<width, height>>
    /\ pre_cells' = cells
    /\ pre_generation' = generation
    /\ overflowed' = (height - 1 < 0)
    /\ \/ /\ height - 1 < 0
          /\ phase' = "panicked"
          /\ board_shape' = [board_shape EXCEPT !.width = width]
       \/ /\ board_shape' = [width |-> width, height |-> wrapping(height - 1)]
          /\ UNCHANGED phase
    /\ dense' = DenseOf(cells, board_shape')
    /\ UNCHANGED <<cells, generation, advances, query>>

Next ==
    \/ /\ \E width \in U16, height \in U16 : new(width, height)
       /\ UNCHANGED <<walk_vars, main_vars>>
    \/ /\ \E live \in SUBSET SeedReach(board_shape) : seed(live)
       /\ UNCHANGED <<walk_vars, main_vars>>
    \/ /\ next
       /\ UNCHANGED <<walk_vars, main_vars>>
    \/ /\ display
       /\ UNCHANGED <<walk_vars, main_vars>>
    \/ /\ \E width \in U16, height \in U16 : resize_board(width, height)
       /\ UNCHANGED <<walk_vars, main_vars>>

Spec == Init /\ [][Next]_vars

\* The engine without terminal resizes.
NextNoResize ==
    \/ /\ \E width \in U16, height \in U16 : new(width, height)
       /\ UNCHANGED <<walk_vars, main_vars>>
    \/ /\ \E live \in SUBSET SeedReach(board_shape) : seed(live)
       /\ UNCHANGED <<walk_vars, main_vars>>
    \/ /\ next
       /\ UNCHANGED <<walk_vars, main_vars>>
    \/ /\ display
       /\ UNCHANGED <<walk_vars, main_vars>>

SpecNoResize == Init /\ [][NextNoResize]_vars

----------------------------------------------------------------------------
(* cell_neighbors on its own: the engine holds any board shape, and the     *)
(* function is applied to any cell of the coordinate type.                 *)

InitNeighbors ==
    /\ phase = "running"
    /\ cells = {}
    /\ board_shape \in Shapes
    /\ generation = 0
    /\ dense = DenseOf({}, board_shape)
    /\ op = "none"
    /\ args = NoArgs
    /\ pre_cells = {}
    /\ pre_generation = 0
    /\ advances = 0
    /\ overflowed = FALSE
    /\ query = NoQuery
    /\ WalkIdle
    /\ MainIdle

call_cell_neighbors(cell) ==
    /\ query' = [called |-> TRUE, cell |-> cell,
                 result |-> cell_neighbors(cell, board_shape)]
    /\ UNCHANGED <<phase, cells, board_shape, generation, dense, op, args,
                   pre_cells, pre_generation, advances, overflowed>>

NextNeighbors ==
    /\ \E cell \in Cell : call_cell_neighbors(cell)
    /\ UNCHANGED <<walk_vars, main_vars>>

SpecNeighbors == InitNeighbors /\ [][NextNeighbors]_vars

----------------------------------------------------------------------------
(* next() cell by cell.  The loop of next() takes the live cells in the    *)
(* order the hash set yields them, which is arbitrary: every order is a    *)
(* behaviour.  The engine starts with any board shape and any live cells   *)
(* seed() can give it, at most MaxVisit of them.                           *)

Range(seq) == {seq[k] : k \in 1..Len(seq)}

InitOrder ==
    /\ phase = "running"
    /\ board_shape \in Shapes
    /\ cells \in {cs \in SUBSET SeedReach(board_shape) :
                     Cardinality(cs) <= MaxVisit}
    /\ generation = 0
    /\ dense = DenseOf(cells, board_shape)
    /\ op = "seed"
    /\ args = NoArgs
    /\ pre_cells = {}
    /\ pre_generation = 0
    /\ advances = 0
    /\ overflowed = FALSE
    /\ query = NoQuery
    /\ WalkIdle
    /\ MainIdle

\* The cells already taken by the loop that is running (none when the last
\* step was not a step of the loop).
Taken == IF op = "visit" THEN visited ELSE <<>>

\* What the loop has inserted so far.
Inserted == IF op = "visit" THEN next_gen ELSE {}

\* The arithmetic of one turn of the loop leaves the coordinate type.
visit_overflows(cell, cs, shape) ==
    \/ cell_neighbors(cell, shape).overflow
    \/ \E d \in dead_neighbors(cell, cs, shape) :
           cell_neighbors(d, shape).overflow

\* Variant: the loop updates the live set in place, so a cell taken later is
\* counted against the cells already decided.
visit_in_place(cell) ==
    LET now == (cells \ Range(Taken)) \cup Inserted
    IN  /\ phase = "running"
        /\ generation < MaxGen
        /\ Cardinality(cells) <= MaxVisit
        /\ cell \in cells \ Range(Taken)
        /\ op' = "visit"
        /\ pre_cells' = cells
        /\ pre_generation' = generation
        /\ visited' = Append(Taken, cell)
        /\ overflowed' = visit_overflows(cell, cells, board_shape)
        /\ \/ /\ visit_overflows(cell, cells, board_shape)
              /\ phase' = "panicked"
              /\ UNCHANGED next_gen
           \/ /\ next_gen' =
                     Inserted
                     \cup {c \in {cell} :
                             survives(alive_neighbors(c, now, board_shape))}
                     \cup {d \in dead_neighbors(cell, now, board_shape) :
                             born(alive_neighbors(d, now, board_shape))}
              /\ UNCHANGED phase
        /\ UNCHANGED <<cells, board_shape, generation, dense, args, advances,
                       query>>

\* One turn of "for cell in self.cells.iter()": the cell is any live cell not
\* taken yet.  Its neighbours are counted in self.cells, which the loop does
\* not change; the cell and its dead neighbours are inserted into the local
\* next_generation.  The arithmetic of cell_neighbors panics or wraps.  Only
\* passes over at most MaxVisit live cells are followed.
visit(cell) ==
    /\ phase = "running"
    /\ generation < MaxGen
    /\ Cardinality(cells) <= MaxVisit
    /\ cell \in cells \ Range(Taken)
    /\ op' = "visit"
    /\ pre_cells' = cells
    /\ pre_generation' = generation
    /\ visited' = Append(Taken, cell)
    /\ overflowed' = visit_overflows(cell, cells, board_shape)
    /\ \/ /\ visit_overflows(cell, cells, board_shape)
          /\ phase' = "panicked"
          /\ UNCHANGED next_gen
       \/ /\ next_gen' =
                 Inserted
                 \cup {c \in {cell} :
                         survives(alive_neighbors(c, cells, board_shape))}
                 \cup {d \in dead_neighbors(cell, cells, board_shape) :
                         born(alive_neighbors(d, cells, board_shape))}
          /\ UNCHANGED phase
    /\ UNCHANGED <<cells, board_shape, generation, dense, args, advances,
                   query>>

\* The loop is over: self.cells = next_generation; self.generation += 1.
\* visited is left as the order of the pass that ended.
assign ==
    /\ phase = "running"
    /\ generation < MaxGen
    /\ Range(Taken) = cells
    /\ op' = "next"
    /\ pre_cells' = cells
    /\ pre_generation' = generation
    /\ overflowed' = FALSE
    /\ cells' = Inserted
    /\ next_gen' = Inserted
    /\ visited' = Taken
    /\ generation' = generation + 1
    /\ advances' = advances + 1
    /\ dense' = DenseStep(dense)
    /\ UNCHANGED <<phase, board_shape, args, query>>

NextOrder ==
    \/ /\ \E cell \in Cell : visit(cell)
       /\ UNCHANGED main_vars
    \/ /\ assign
       /\ UNCHANGED main_vars

SpecOrder == InitOrder /\ [][NextOrder]_vars

----------------------------------------------------------------------------
(* main: terminal setup, the control loop and the teardown, one step per   *)
(* call.  The SIGINT handler registered by signal_hook only stores true    *)
(* into stop_signal and may run between any two steps.  The terminal       *)
(* reports sizes up to TermMax.  A call that returns Err makes main return *)
(* it at once through the ? operator.                                      *)

TermSizes == (0..TermMax) \X (0..TermMax)
Results == {"ok", "err"}
Events == {"quit", "ctrl_c", "toggle", "step", "other", "resize"}
TeardownCalls == {"disable_raw_mode", "LeaveAlternateScreen", "Show"}

InitMain ==
    /\ phase = "uninit"
    /\ cells = {}
    /\ board_shape = [width |-> 0, height |-> 0]
    /\ generation = 0
    /\ dense = NoGrid
    /\ op = "none"
    /\ args = NoArgs
    /\ pre_cells = {}
    /\ pre_generation = 0
    /\ advances = 0
    /\ overflowed = FALSE
    /\ query = NoQuery
    /\ WalkIdle
    /\ pc = "register"
    /\ paused = FALSE
    /\ stop_signal = FALSE
    /\ raw_mode = FALSE
    /\ alternate_screen = FALSE
    /\ cursor_hidden = FALSE
    /\ status = "running"
    /\ iter = NoIter
    /\ failed = "none"
    /\ since_stop = NoneSinceStop
    /\ cleanup = {}

\* main returns the Err of the call named.
ReturnErr(call) ==
    /\ pc' = "done"
    /\ status' = "err"
    /\ failed' = call

\* The process dies of a panic.
Abort ==
    /\ pc' = "done"
    /\ status' = "panicked"
    /\ UNCHANGED failed

\* signal_hook::flag::register(SIGINT, stop_signal)?
main_register(result) ==
    /\ pc = "register"
    /\ IF result = "ok"
       THEN pc' = "new" /\ UNCHANGED <<status, failed>>
       ELSE ReturnErr("register")
    /\ UNCHANGED <<paused, stop_signal, raw_mode, alternate_screen,
                   cursor_hidden, iter, since_stop, cleanup>>
    /\ UNCHANGED <<engine_vars, walk_vars>>

\* size().unwrap() when size() is Err.
main_size_panics ==
    /\ pc = "new"
    /\ Abort
    /\ UNCHANGED <<paused, stop_signal, raw_mode, alternate_screen,
                   cursor_hidden, iter, since_stop, cleanup>>
    /\ UNCHANGED <<engine_vars, walk_vars>>

\* let (width, height) = size().unwrap(); let mut game = Game::new(width, height)
main_new(width, height) ==
    /\ pc = "new"
    /\ new(width, height)
    /\ IF phase' = "panicked"
       THEN Abort
       ELSE pc' = "seed" /\ UNCHANGED <<status, failed>>
    /\ UNCHANGED <<paused, stop_signal, raw_mode, alternate_screen,
                   cursor_hidden, iter, since_stop, cleanup>>
    /\ UNCHANGED walk_vars

\* game.seed()
main_seed(live) ==
    /\ pc = "seed"
    /\ seed(live)
    /\ pc' = "enter_screen"
    /\ UNCHANGED <<paused, stop_signal, raw_mode, alternate_screen,
                   cursor_hidden, status, iter, failed, since_stop, cleanup>>
    /\ UNCHANGED walk_vars

\* execute!(stdout(), EnterAlternateScreen, Hide)?  The commands are written
\* and flushed; when the call fails they may or may not have reached the
\* terminal.
main_enter_screen(result, written) ==
    /\ pc = "enter_screen"
    /\ result = "ok" => written
    /\ alternate_screen' = written
    /\ cursor_hidden' = written
    /\ IF result = "ok"
       THEN pc' = "enable_raw" /\ UNCHANGED <<status, failed>>
       ELSE ReturnErr("enter_screen")
    /\ UNCHANGED <<paused, stop_signal, raw_mode, iter, since_stop, cleanup>>
    /\ UNCHANGED <<engine_vars, walk_vars>>

\* enable_raw_mode()?; let mut paused = false
main_enable_raw(result) ==
    /\ pc = "enable_raw"
    /\ raw_mode' = (result = "ok")
    /\ paused' = FALSE
    /\ IF result = "ok"
       THEN pc' = "loop" /\ UNCHANGED <<status, failed>>
       ELSE ReturnErr("enable_raw_mode")
    /\ UNCHANGED <<stop_signal, alternate_screen, cursor_hidden, iter,
                   since_stop, cleanup>>
    /\ UNCHANGED <<engine_vars, walk_vars>>

\* Variant: the loop never looks at the flag.
main_loop_ignores_flag ==
    /\ pc = "loop"
    /\ iter' = [NoIter EXCEPT !.flag = stop_signal, !.was_paused = paused,
                              !.generation = generation]
    /\ pc' = "poll"
    /\ UNCHANGED <<paused, stop_signal, raw_mode, alternate_screen,
                   cursor_hidden, status, failed, since_stop, cleanup>>
    /\ UNCHANGED <<engine_vars, walk_vars>>

\* while !stop_signal.load(Ordering::Relaxed): the one read of the flag in an
\* iteration.  The store of the handler is taken to be visible to the next
\* load.
main_loop ==
    /\ pc = "loop"
    /\ iter' = [NoIter EXCEPT !.flag = stop_signal, !.was_paused = paused,
                              !.generation = generation,
                              !.event = IF stop_signal THEN "stop" ELSE "none"]
    /\ pc' = IF stop_signal THEN "disable_raw" ELSE "poll"
    /\ UNCHANGED <<paused, stop_signal, raw_mode, alternate_screen,
                   cursor_hidden, status, failed, since_stop, cleanup>>
    /\ UNCHANGED <<engine_vars, walk_vars>>

\* Variant: a waiting event is dropped and the tick runs all the same.
main_poll_ticks_on_event(result) ==
    /\ pc = "poll"
    /\ since_stop' = IF stop_signal
                     THEN [since_stop EXCEPT !.polls = @ + 1]
                     ELSE since_stop
    /\ CASE result = "event" ->
                /\ pc' = IF paused THEN "loop" ELSE "display"
                /\ iter' = [iter EXCEPT !.event = "other"]
                /\ UNCHANGED <<status, failed>>
         [] result = "timeout" ->
                /\ pc' = IF paused THEN "loop" ELSE "display"
                /\ iter' = [iter EXCEPT !.event = "timeout"]
                /\ UNCHANGED <<status, failed>>
         [] OTHER ->
                /\ ReturnErr("poll")
                /\ UNCHANGED iter
    /\ UNCHANGED <<paused, stop_signal, raw_mode, alternate_screen,
                   cursor_hidden, cleanup>>
    /\ UNCHANGED <<engine_vars, walk_vars>>

\* if poll(Duration::from_millis(200))? { ... } else if !paused { ... }
\* poll returns within the timeout: Ok(true) with an event waiting, Ok(false)
\* without, or Err.
main_poll(result) ==
    /\ pc = "poll"
    /\ since_stop' = IF stop_signal
                     THEN [since_stop EXCEPT !.polls = @ + 1]
                     ELSE since_stop
    /\ CASE result = "event" ->
                /\ pc' = "read"
                /\ UNCHANGED <<iter, status, failed>>
         [] result = "timeout" ->
                /\ pc' = IF paused THEN "loop" ELSE "display"
                /\ iter' = [iter EXCEPT !.event = "timeout"]
                /\ UNCHANGED <<status, failed>>
         [] OTHER ->
                /\ ReturnErr("poll")
                /\ UNCHANGED iter
    /\ UNCHANGED <<paused, stop_signal, raw_mode, alternate_screen,
                   cursor_hidden, cleanup>>
    /\ UNCHANGED <<engine_vars, walk_vars>>

\* read()? returned Err.
main_read_fails ==
    /\ pc = "read"
    /\ ReturnErr("read")
    /\ UNCHANGED <<paused, stop_signal, raw_mode, alternate_screen,
                   cursor_hidden, iter, since_stop, cleanup>>
    /\ UNCHANGED <<engine_vars, walk_vars>>

\* Variant: 'n' steps whether paused or not.
main_read_key_steps_unpaused(event) ==
    /\ pc = "read"
    /\ event \in Events \ {"resize"}
    /\ iter' = [iter EXCEPT !.event = event]
    /\ paused' = IF event = "toggle" THEN ~paused ELSE paused
    /\ pc' = CASE event \in {"quit", "ctrl_c"} -> "disable_raw"
               [] event = "step" -> "display"
               [] OTHER -> "loop"
    /\ UNCHANGED <<stop_signal, raw_mode, alternate_screen, cursor_hidden,
                   status, failed, since_stop, cleanup>>
    /\ UNCHANGED <<engine_vars, walk_vars>>

\* match read()? { Event::Key(event) => ... }: 'q' and Ctrl+C break, ' ' and
\* 'p' toggle paused, 'n' steps if paused, every other key and every other
\* event does nothing.
main_read_key(event) ==
    /\ pc = "read"
    /\ event \in Events \ {"resize"}
    /\ iter' = [iter EXCEPT !.event = event]
    /\ paused' = IF event = "toggle" THEN ~paused ELSE paused
    /\ pc' = CASE event \in {"quit", "ctrl_c"} -> "disable_raw"
               [] event = "step" /\ paused -> "display"
               [] OTHER -> "loop"
    /\ UNCHANGED <<stop_signal, raw_mode, alternate_screen, cursor_hidden,
                   status, failed, since_stop, cleanup>>
    /\ UNCHANGED <<engine_vars, walk_vars>>

\* Event::Resize(width, height) => game.resize_board(width, height)
main_read_resize(width, height) ==
    /\ pc = "read"
    /\ resize_board(width, height)
    /\ iter' = [iter EXCEPT !.event = "resize"]
    /\ IF phase' = "panicked"
       THEN Abort
       ELSE pc' = "loop" /\ UNCHANGED <<status, failed>>
    /\ UNCHANGED <<paused, stop_signal, raw_mode, alternate_screen,
                   cursor_hidden, since_stop, cleanup>>
    /\ UNCHANGED walk_vars

\* game.display()?
main_display(result) ==
    /\ pc = "display"
    /\ display
    /\ iter' = [iter EXCEPT !.displays = @ + 1]
    /\ IF result = "ok"
       THEN pc' = "next" /\ UNCHANGED <<status, failed>>
       ELSE ReturnErr("display")
    /\ UNCHANGED <<paused, stop_signal, raw_mode, alternate_screen,
                   cursor_hidden, since_stop, cleanup>>
    /\ UNCHANGED walk_vars

\* game.next()
main_next ==
    /\ pc = "next"
    /\ next
    /\ iter' = [iter EXCEPT !.nexts = @ + 1]
    /\ since_stop' = IF stop_signal
                     THEN [since_stop EXCEPT !.nexts = @ + 1]
                     ELSE since_stop
    /\ IF phase' = "panicked"
       THEN Abort
       ELSE pc' = "loop" /\ UNCHANGED <<status, failed>>
    /\ UNCHANGED <<paused, stop_signal, raw_mode, alternate_screen,
                   cursor_hidden, cleanup>>
    /\ UNCHANGED walk_vars

\* disable_raw_mode()?
main_disable_raw(result) ==
    /\ pc = "disable_raw"
    /\ cleanup' = cleanup \cup {"disable_raw_mode"}
    /\ raw_mode' = IF result = "ok" THEN FALSE ELSE raw_mode
    /\ IF result = "ok"
       THEN pc' = "leave_screen" /\ UNCHANGED <<status, failed>>
       ELSE ReturnErr("disable_raw_mode")
    /\ UNCHANGED <<paused, stop_signal, alternate_screen, cursor_hidden, iter,
                   since_stop>>
    /\ UNCHANGED <<engine_vars, walk_vars>>

\* Variant: the cursor is not shown again.
main_leave_screen_without_show(result, written) ==
    /\ pc = "leave_screen"
    /\ result = "ok" => written
    /\ cleanup' = cleanup \cup {"LeaveAlternateScreen"}
    /\ alternate_screen' = IF written THEN FALSE ELSE alternate_screen
    /\ pc' = "done"
    /\ status' = result
    /\ failed' = IF result = "ok" THEN failed ELSE "leave_screen"
    /\ UNCHANGED <<paused, stop_signal, raw_mode, cursor_hidden, iter,
                   since_stop>>
    /\ UNCHANGED <<engine_vars, walk_vars>>

\* execute!(io::stdout(), LeaveAlternateScreen, Show): the value of main.
main_leave_screen(result, written) ==
    /\ pc = "leave_screen"
    /\ result = "ok" => written
    /\ cleanup' = cleanup \cup {"LeaveAlternateScreen", "Show"}
    /\ alternate_screen' = IF written THEN FALSE ELSE alternate_screen
    /\ cursor_hidden' = IF written THEN FALSE ELSE cursor_hidden
    /\ pc' = "done"
    /\ status' = result
    /\ failed' = IF result = "ok" THEN failed ELSE "leave_screen"
    /\ UNCHANGED <<paused, stop_signal, raw_mode, iter, since_stop>>
    /\ UNCHANGED <<engine_vars, walk_vars>>

\* SIGINT: the handler stores true into the flag, whatever main is doing.
sigint ==
    /\ pc \notin {"register", "done"}
    /\ ~stop_signal
    /\ stop_signal' = TRUE
    /\ UNCHANGED <<pc, paused, raw_mode, alternate_screen, cursor_hidden,
                   status, iter, failed, since_stop, cleanup>>
    /\ UNCHANGED <<engine_vars, walk_vars>>

NextMain ==
    \/ \E result \in Results : main_register(result)
    \/ main_size_panics
    \/ \E size \in TermSizes : main_new(size[1], size[2])
    \/ \E live \in SUBSET SeedReach(board_shape) : main_seed(live)
    \/ \E result \in Results, written \in BOOLEAN :
           main_enter_screen(result, written)
    \/ \E result \in Results : main_enable_raw(result)
    \/ main_loop
    \/ \E result \in {"event", "timeout", "err"} : main_poll(result)
    \/ main_read_fails
    \/ \E event \in Events : main_read_key(event)
    \/ \E size \in TermSizes : main_read_resize(size[1], size[2])
    \/ \E result \in Results : main_display(result)
    \/ main_next
    \/ \E result \in Results : main_disable_raw(result)
    \/ \E result \in Results, written \in BOOLEAN :
           main_leave_screen(result, written)
    \/ sigint

SpecMain == InitMain /\ [][NextMain]_vars

----------------------------------------------------------------------------
(* Properties.                                                             *)

\* The Moore neighbourhood of a coordinate on a board: the cells of the board
\* rectangle next to it horizontally, vertically or diagonally.
MooreNeighbourhood(c, shape) == {d \in Rect(shape) : Adjacent(c, d)}

LiveNeighbours(c, cs, shape) ==
    Cardinality(MooreNeighbourhood(c, shape) \cap cs)

\* next() has returned (it is the last operation and did not panic).
Advanced == op = "next" /\ phase = "running"

\* C1 - survival rule: a cell alive before next() is alive after it if and
\* only if 2 or 3 cells of its Moore neighbourhood were alive before; this
\* for every live cell of every state reached through seed, next and
\* resize_board, the cells left outside the board by a resize included.
C1_SurvivalRule ==
    Advanced =>
        \A c \in pre_cells :
            c \in cells <=> LiveNeighbours(c, pre_cells, board_shape) \in {2, 3}

\* C1 witness: one next() kept a live cell, removed a live cell that had
\* more than 3 live neighbours and removed a live cell that had fewer than 2.
C1_Witness ==
    /\ Advanced
    /\ \E c \in pre_cells : c \in cells
    /\ \E c \in pre_cells :
           c \notin cells /\ LiveNeighbours(c, pre_cells, board_shape) > 3
    /\ \E c \in pre_cells :
           c \notin cells /\ LiveNeighbours(c, pre_cells, board_shape) < 2

\* C2 - birth rule: a cell of the board that is dead before next() is alive
\* after it if and only if exactly 3 of its neighbours were alive before; no
\* coordinate without a live neighbour, and none outside the board, is born.
C2_BirthRule ==
    Advanced =>
        /\ \A d \in Rect(board_shape) \ pre_cells :
               d \in cells <=> LiveNeighbours(d, pre_cells, board_shape) = 3
        /\ \A d \in Cell \ pre_cells :
               (d \notin Rect(board_shape)
                    \/ LiveNeighbours(d, pre_cells, board_shape) = 0)
               => d \notin cells

\* C2 witness: one next() gave birth to a cell and left dead a cell with 2
\* live neighbours, a cell with more than 3 and a cell with none.
C2_Witness ==
    /\ Advanced
    /\ \E d \in cells : d \notin pre_cells
    /\ \E d \in Rect(board_shape) \ (pre_cells \cup cells) :
           LiveNeighbours(d, pre_cells, board_shape) = 2
    /\ \E d \in Rect(board_shape) \ (pre_cells \cup cells) :
           LiveNeighbours(d, pre_cells, board_shape) > 3
    /\ \E d \in Rect(board_shape) \ (pre_cells \cup cells) :
           LiveNeighbours(d, pre_cells, board_shape) = 0

\* C3 - the sparse engine and the dense grid, started from the same board
\* and the same seeded cells and stepped together, hold the same live cells
\* after every number of next() calls.
C3_DenseEquivalence ==
    phase \in {"created", "running"} => DenseLive(dense) = cells

\* C3 witness: the two agree after a second next() that changed a non-empty
\* board into another non-empty board.
C3_Witness ==
    /\ Advanced
    /\ generation >= 2
    /\ pre_cells # {}
    /\ cells # {}
    /\ cells # pre_cells
    /\ DenseLive(dense) = cells

\* C4 - without resize_board, every live cell lies inside the board
\* rectangle: first component < width, second component < height.
C4_CellsInBounds ==
    \A c \in cells : c[1] < board_shape.width /\ c[2] < board_shape.height

\* C4 witness: next() gave birth to a cell in the last column and to a cell
\* in the last row of the board.
C4_Witness ==
    /\ Advanced
    /\ \E c \in cells \ pre_cells : c[1] = board_shape.width - 1
    /\ \E c \in cells \ pre_cells : c[2] = board_shape.height - 1

\* C5 - cell_neighbors((0,0)) on a board of width >= 2 and height >= 2 is
\* exactly {(0,1),(1,0),(1,1)}; for every cell and board shape the result
\* holds neither the cell itself, nor a coordinate obtained by wrapping below
\* 0, nor a coordinate further than 1 from the cell in either axis.
C5_Neighbors ==
    query.called =>
        LET c == query.cell
            result == query.result.neighbors
        IN  /\ (c = <<0, 0>> /\ board_shape.width >= 2 /\ board_shape.height >= 2)
                   => result = {<<0, 1>>, <<1, 0>>, <<1, 1>>}
            /\ c \notin result
            /\ \A d \in result :
                   /\ d[1] - c[1] \in {-1, 0, 1}
                   /\ d[2] - c[2] \in {-1, 0, 1}
                   /\ c[1] = 0 => d[1] # CoordMax
                   /\ c[2] = 0 => d[2] # CoordMax

\* C5 witness: cell_neighbors was called on (0,0) with a board at least 2 by
\* 2 and returned three cells.
C5_Witness ==
    /\ query.called
    /\ query.cell = <<0, 0>>
    /\ board_shape.width >= 2
    /\ board_shape.height >= 2
    /\ Cardinality(query.result.neighbors) = 3

\* C6 as stated - new(width, height) creates an engine with no live cell,
\* generation 0 and the board shape exactly (width, height), without error;
\* stated for the calls whose arithmetic stays inside the coordinate type, so
\* that the underflow of C10 plays no part.
C6_ShapeAsGiven ==
    (op = "new" /\ ~overflowed) =>
        /\ phase = "created"
        /\ cells = {}
        /\ generation = 0
        /\ board_shape = [width |-> args[1], height |-> args[2]]

\* C6 amended - new(width, height) with height >= 1 creates, without error,
\* an engine with no live cell, generation 0 and the board shape
\* (width, height - 1); with height 0 the subtraction leaves the type, and the
\* call either panics or creates such an engine of height CoordMax.
C6_ShapeLessStatusRow ==
    op = "new" =>
        \/ /\ args[2] >= 1
           /\ phase = "created"
           /\ cells = {}
           /\ generation = 0
           /\ board_shape = [width |-> args[1], height |-> args[2] - 1]
        \/ /\ args[2] = 0
           /\ phase = "panicked"
        \/ /\ args[2] = 0
           /\ phase = "created"
           /\ cells = {}
           /\ generation = 0
           /\ board_shape = [width |-> args[1], height |-> CoordMax]

\* C6 witness: new was called with a height of at least 2 and created the
\* engine with one row less.
C6_Witness ==
    /\ op = "new"
    /\ phase = "created"
    /\ args[2] >= 2
    /\ board_shape.height = args[2] - 1
    /\ board_shape.width = args[1]
    /\ cells = {}

\* C7 - the generation counter is 0 after new, grows by exactly 1 on every
\* next() whatever the population, and is left alone by seed, resize_board
\* and display: it always equals the number of next() calls made so far.
C7_GenerationCountsAdvances ==
    /\ generation = advances
    /\ (op = "new" /\ phase = "created") => generation = 0
    /\ Advanced => generation = pre_generation + 1
    /\ op \in {"seed", "resize_board", "display"} => generation = pre_generation

\* C7 witness: a second next(), taken on a board with no live cell, brought
\* the counter from 1 to 2.
C7_Witness ==
    /\ Advanced
    /\ pre_cells = {}
    /\ pre_generation = 1
    /\ generation = 2
    /\ advances = 2

\* C8 - after any sequence of resize_board and next() calls, also with live
\* cells outside the shape, next() returns: it does not panic, and none of
\* i - 1, i + 1, j - 1, j + 1 leaves the coordinate type.
C8_AdvanceCompletes ==
    op = "next" => phase = "running" /\ ~overflowed

\* C8 witness: next() returned on a board that held a live cell outside the
\* shape, a live cell with a coordinate 0 and a live cell in the last column.
C8_Witness ==
    /\ Advanced
    /\ ~overflowed
    /\ \E c \in pre_cells : c \notin Rect(board_shape)
    /\ \E c \in pre_cells : c[1] = 0 \/ c[2] = 0
    /\ \E c \in pre_cells : c[1] = board_shape.width - 1

\* C9 as stated - resize_board(width, height) makes the board shape exactly
\* (width, height) and leaves the live cells and the generation unchanged;
\* stated for the calls whose arithmetic stays inside the coordinate type, so
\* that the underflow of C10 plays no part.
C9_ResizeStoresShapeAsGiven ==
    (op = "resize_board" /\ ~overflowed) =>
        /\ board_shape = [width |-> args[1], height |-> args[2]]
        /\ cells = pre_cells
        /\ generation = pre_generation

\* C9 amended - resize_board(width, height) leaves the live cells, those now
\* outside the bounds included, and the generation unchanged; with
\* height >= 1 it makes the board shape (width, height - 1); with height 0 the
\* subtraction leaves the type, and the call either panics or makes the shape
\* (width, CoordMax).
C9_ResizeFrame ==
    op = "resize_board" =>
        /\ cells = pre_cells
        /\ generation = pre_generation
        /\ \/ /\ args[2] >= 1
              /\ phase = "running"
              /\ board_shape = [width |-> args[1], height |-> args[2] - 1]
           \/ /\ args[2] = 0
              /\ phase = "panicked"
           \/ /\ args[2] = 0
              /\ phase = "running"
              /\ board_shape = [width |-> args[1], height |-> CoordMax]

\* C9 witness: a resize left live cells outside the new shape.
C9_Witness ==
    /\ op = "resize_board"
    /\ phase = "running"
    /\ args[2] >= 1
    /\ board_shape = [width |-> args[1], height |-> args[2] - 1]
    /\ \E c \in cells : c \notin Rect(board_shape)
    /\ \E c \in cells : c \in Rect(board_shape)
    /\ cells = pre_cells
    /\ generation >= 1

\* C10 - new and resize_board are total: for every width and height of the
\* coordinate type, 0 included, the call returns without an arithmetic
\* underflow and without a panic.
C10_ShapeOperationsTotal ==
    op \in {"new", "resize_board"} => phase # "panicked" /\ ~overflowed

\* The 2x2 block whose corner nearest the origin is (i, j).
Block(i, j) == {<<i, j>>, <<i + 1, j>>, <<i, j + 1>>, <<i + 1, j + 1>>}

\* b is a 2x2 block of live cells of cs, fully inside the board, with no other
\* live cell of cs adjacent to it.
IsolatedBlock(b, cs, shape) ==
    /\ \E i \in U16, j \in U16 : b = Block(i, j)
    /\ b \subseteq cs
    /\ b \subseteq Rect(shape)
    /\ \A c \in cs \ b : \A d \in b : ~Adjacent(c, d)

\* C11 as stated - next() on a board holding a 2x2 block fully inside the
\* board, with no other live cell adjacent to the block, leaves the live-cell
\* set as it was.
C11_IsolatedBlockFixesBoard ==
    Advanced =>
        \A b \in SUBSET pre_cells :
            IsolatedBlock(b, pre_cells, board_shape) => cells = pre_cells

\* C11 amended - such a block keeps its four cells alive through next(); and
\* when the block is the whole live-cell set, the live-cell set (hence the
\* population) after next() is the one before, at every generation.
C11_BlockStillLife ==
    Advanced =>
        \A b \in SUBSET pre_cells :
            IsolatedBlock(b, pre_cells, board_shape) =>
                /\ b \subseteq cells
                /\ pre_cells = b => cells = pre_cells

\* C11 witness: a second next() left alone a block that was the whole
\* live-cell set and lay against the last column and the last row of a board
\* larger than the block.
C11_Witness ==
    /\ Advanced
    /\ generation = 2
    /\ Rect(board_shape) # pre_cells
    /\ \E i \in U16, j \in U16 :
           /\ pre_cells = Block(i, j)
           /\ i + 1 = board_shape.width - 1
           /\ j + 1 = board_shape.height - 1
    /\ cells = pre_cells

BlinkerRow == {<<1, 0>>, <<1, 1>>, <<1, 2>>}
BlinkerColumn == {<<0, 1>>, <<1, 1>>, <<2, 1>>}

\* C12 - blinker: on a board holding all coordinates with components 0..2,
\* next() turns the live-cell set {(1,0),(1,1),(1,2)} into exactly
\* {(0,1),(1,1),(2,1)}, and turns that set back into {(1,0),(1,1),(1,2)}.
C12_Blinker ==
    (Advanced /\ board_shape.width >= 3 /\ board_shape.height >= 3) =>
        /\ pre_cells = BlinkerRow => cells = BlinkerColumn
        /\ pre_cells = BlinkerColumn => cells = BlinkerRow

\* C12 witness: the second next() of a run turned the column, which seed()
\* cannot produce on such a board, back into the row.
C12_Witness ==
    /\ Advanced
    /\ generation = 2
    /\ board_shape.width >= 3
    /\ board_shape.height >= 3
    /\ pre_cells = BlinkerColumn
    /\ cells = BlinkerRow

\* C13 - next() on an engine without live cells, whatever the board shape,
\* leaves the live-cell set empty and adds exactly 1 to the generation.
C13_EmptyStaysEmpty ==
    (op = "next" /\ pre_cells = {}) =>
        /\ phase = "running"
        /\ cells = {}
        /\ Cardinality(cells) = 0
        /\ generation = pre_generation + 1

\* C13 witness: next() ran on an empty engine whose board has cells.
C13_Witness ==
    /\ Advanced
    /\ pre_cells = {}
    /\ cells = {}
    /\ generation = pre_generation + 1
    /\ Rect(board_shape) # {}

\* The live cells of cs that lie outside the board: what a shrinking
\* resize_board leaves behind.
Stale(cs, shape) == cs \ Rect(shape)

\* C19 - cells left outside the board by a resize: next() adds no cell outside
\* the current board shape, so the live cells outside it after next() are among
\* those outside it before; such a cell is still alive after next() only if 2
\* or 3 live cells inside the board were adjacent to it; and no cell outside
\* the board is in the neighbours next() counts for any cell, so a cell's fate
\* is decided by the live cells inside the board alone.
C19_StaleCells ==
    Advanced =>
        /\ (cells \ pre_cells) \subseteq Rect(board_shape)
        /\ Stale(cells, board_shape) \subseteq Stale(pre_cells, board_shape)
        /\ \A c \in Stale(cells, board_shape) :
               LiveNeighbours(c, pre_cells \cap Rect(board_shape), board_shape)
                   \in {2, 3}
        /\ \A c \in Cell :
               /\ cell_neighbors(c, board_shape).neighbors
                      \cap Stale(pre_cells, board_shape) = {}
               /\ alive_neighbors(c, pre_cells, board_shape)
                      = alive_neighbors(c, pre_cells \cap Rect(board_shape),
                                        board_shape)
        /\ cells \cap Rect(board_shape)
               = {c \in Rect(board_shape) :
                     LET n == LiveNeighbours(c, pre_cells \cap Rect(board_shape),
                                             board_shape)
                     IN  IF c \in pre_cells THEN n \in {2, 3} ELSE n = 3}

\* C19 witness: next() ran with live cells outside the board; one of them is
\* still alive, another is gone, and one of them was adjacent to a cell inside
\* the board whose fate it would have changed had it been counted.
C19_Witness ==
    /\ Advanced
    /\ \E c \in Stale(pre_cells, board_shape) : c \in cells
    /\ \E c \in Stale(pre_cells, board_shape) : c \notin cells
    /\ \E c \in Rect(board_shape) :
           LET counted == LiveNeighbours(c, pre_cells, board_shape)
               all     == Cardinality({d \in pre_cells : Adjacent(c, d)})
           IN  /\ all # counted
               /\ (IF c \in pre_cells THEN all \in {2, 3} ELSE all = 3)
                      # (c \in cells)

\* C18 - simultaneous update: whatever the order in which the loop of next()
\* takes the live cells, the set it assigns is the one function of the live
\* cells and the board shape before the call, so two passes from the same
\* state that take the cells in different orders assign the same set.
C18_OrderIndependent ==
    (op = "next" /\ phase = "running") =>
        /\ Range(visited) = pre_cells
        /\ Len(visited) = Cardinality(pre_cells)
        /\ cells = next_generation(pre_cells, board_shape)
        /\ generation = pre_generation + 1

\* C18 witness: a pass ended in which a cell that dies was taken before an
\* adjacent cell that lives only because the first one was still counted.
C18_Witness ==
    /\ op = "next"
    /\ phase = "running"
    /\ \E k \in 1..Len(visited), l \in 1..Len(visited) :
           /\ k < l
           /\ Adjacent(visited[k], visited[l])
           /\ visited[k] \notin cells
           /\ visited[l] \in cells
           /\ ~survives(alive_neighbors(visited[l],
                                        pre_cells \ {visited[k]},
                                        board_shape))

\* The ways the control loop ends without a failure: 'q', Ctrl+C, or the
\* loop condition reading the stop flag as set.
LoopExits == {"quit", "ctrl_c", "stop"}

Restored == ~raw_mode /\ ~alternate_screen /\ ~cursor_hidden

\* C14 - terminal restoration on normal exit: once the control loop has ended
\* by the quit key, the Ctrl+C key or the stop flag, main is in the teardown
\* and calls disable_raw_mode; when the process has ended and no teardown call
\* has failed, main has returned Ok, raw mode is disabled, the alternate screen
\* is left and the cursor is shown.
C14_RestoredOnNormalExit ==
    iter.event \in LoopExits =>
        /\ pc \in {"disable_raw", "leave_screen", "done"}
        /\ pc = "done" =>
               /\ "disable_raw_mode" \in cleanup
               /\ failed \in {"none", "disable_raw_mode", "leave_screen"}
               /\ failed = "none" =>
                      /\ status = "ok"
                      /\ Restored
                      /\ cleanup = TeardownCalls

\* C14 witness: the process has ended after 'q', with the terminal entered
\* and restored, an advance made and the engine paused.
C14_Witness ==
    /\ pc = "done"
    /\ status = "ok"
    /\ iter.event = "quit"
    /\ paused
    /\ generation >= 1
    /\ Restored
    /\ cleanup = TeardownCalls

\* C14 on the other two ways out: Ctrl+C, and the stop flag.
C14_WitnessCtrlC ==
    pc = "done" /\ status = "ok" /\ iter.event = "ctrl_c" /\ Restored

C14_WitnessStop ==
    pc = "done" /\ status = "ok" /\ iter.event = "stop" /\ Restored

\* C15 - cleanup on I/O failure: when the process has ended with the error of
\* enable_raw_mode, poll, read or display, called after the alternate screen
\* was entered, it has attempted to disable raw mode, to leave the alternate
\* screen and to show the cursor.
C15_CleanupOnFailure ==
    (pc = "done" /\ status = "err"
         /\ failed \in {"enable_raw_mode", "poll", "read", "display"}) =>
        TeardownCalls \subseteq cleanup

\* C16 - pause gating: an iteration begun paused draws or advances only if it
\* consumes the single-step key, and then draws once and advances once; the
\* single-step key consumed by an iteration begun unpaused draws nothing and
\* advances nothing; the toggle key flips paused and leaves the generation.
C16_PauseGating ==
    /\ iter.displays <= 1
    /\ iter.nexts <= iter.displays
    /\ (iter.was_paused /\ iter.displays + iter.nexts > 0) =>
           iter.event = "step"
    /\ (iter.event = "step" /\ iter.was_paused /\ pc = "loop") =>
           /\ iter.displays = 1
           /\ iter.nexts = 1
           /\ generation = iter.generation + 1
           /\ paused
    /\ (iter.event = "step" /\ ~iter.was_paused) =>
           /\ iter.displays = 0
           /\ iter.nexts = 0
           /\ generation = iter.generation
           /\ pc = "loop"
    /\ iter.event = "toggle" =>
           /\ paused = ~iter.was_paused
           /\ iter.displays = 0
           /\ iter.nexts = 0
           /\ generation = iter.generation
           /\ pc = "loop"

\* C16 witness: a second single-step iteration has ended while paused, each
\* having drawn once and advanced once.
C16_Witness ==
    /\ pc = "loop"
    /\ iter.event = "step"
    /\ iter.was_paused
    /\ paused
    /\ iter.displays = 1
    /\ iter.nexts = 1
    /\ iter.generation = 1
    /\ generation = 2

\* C16 on the other two cases: 'n' while unpaused, and the toggle key.
C16_WitnessIgnored ==
    iter.event = "step" /\ ~iter.was_paused /\ generation = 1

C16_WitnessToggle ==
    iter.event = "toggle" /\ iter.was_paused /\ ~paused /\ generation = 1

\* C17 - cooperative cancellation: the loop condition is the read of the flag
\* in an iteration, and an iteration whose read found the flag set is the
\* end of the loop: it waits for no event, draws nothing and advances
\* nothing.  After the flag is set at most one wait (which returns within the
\* timeout, event or not) and at most one next() are begun.  Every next()
\* that returned, interrupted or not, replaced the live cells and incremented
\* the generation together.
C17_CooperativeCancellation ==
    /\ iter.flag =>
           /\ stop_signal
           /\ iter.event = "stop"
           /\ pc \in {"disable_raw", "leave_screen", "done"}
           /\ iter.displays = 0
           /\ iter.nexts = 0
    /\ (stop_signal /\ pc \in {"poll", "read", "display", "next"}) => ~iter.flag
    /\ since_stop.polls <= 1
    /\ since_stop.nexts <= 1
    /\ ~stop_signal => since_stop = NoneSinceStop
    /\ generation = advances
    /\ (op = "next" /\ phase = "running") =>
           /\ cells = next_generation(pre_cells, board_shape)
           /\ generation = pre_generation + 1

\* C17 witness: the flag was set after the wait timed out, while the draw or
\* the advance was under way; that advance completed, changing the live
\* cells, and the loop ended at its next check with no event read.
C17_Witness ==
    /\ pc = "done"
    /\ status = "ok"
    /\ iter.event = "stop"
    /\ since_stop = [polls |-> 0, nexts |-> 1]
    /\ op = "next"
    /\ generation = pre_generation + 1
    /\ cells # pre_cells

\* C20 - events pre-empt the tick: an iteration begun unpaused in which the
\* wait returned an event draws nothing and advances nothing; an iteration
\* begun unpaused advances only if the wait timed out; no iteration advances
\* the generation more than once.
C20_EventsPreemptTick ==
    /\ (iter.event \in Events /\ ~iter.was_paused) =>
           /\ iter.displays = 0
           /\ iter.nexts = 0
           /\ generation = iter.generation
    /\ (~iter.was_paused /\ iter.displays + iter.nexts > 0) =>
           iter.event = "timeout"
    /\ iter.nexts <= 1
    /\ generation <= iter.generation + 1
    /\ phase # "panicked" => generation = iter.generation + iter.nexts

\* C20 witness: after a tick that advanced, an unpaused iteration consumed a
\* resize event and ended without drawing or advancing.
C20_Witness ==
    /\ pc = "loop"
    /\ iter.event = "resize"
    /\ ~iter.was_paused
    /\ iter.generation = 1
    /\ generation = 1
    /\ advances = 1
    /\ iter.displays = 0
    /\ iter.nexts = 0

\* C20 on the tick itself: the wait timed out and the iteration advanced.
C20_WitnessTick ==
    pc = "loop" /\ iter.event = "timeout" /\ iter.nexts = 1 /\ generation = 2

====
